---- MODULE Spec2Model ----
(***************************************************************************)
(* swim-pacer HTML synchronisation scripts:                                *)
(*   update_esp32_html.py  copies config_interface.html into the raw       *)
(*                         string literal of swim_pacer.ino                *)
(*   sync_check.py         compares the marker-delimited region of         *)
(*                         config_interface.html with the literal body     *)
(*                                                                         *)
(* A text is a sequence of symbols.  Every symbol is the exact piece of    *)
(* text written in its string: one character where the scripts look at     *)
(* single characters ("<", "!", "-", ">", " ", "\n"), and a whole token    *)
(* where the scripts only ever match the token as a unit.  The text a      *)
(* sequence stands for is the concatenation of its symbols.  No symbol     *)
(* other than "SYNC MARKER" contains that text, no symbol but LitOpen,     *)
(* LitClose and HandleRoot contains a part of those tokens, and no token   *)
(* symbol begins or ends with whitespace, so a search on symbols finds     *)
(* exactly what the same search finds on characters.                       *)
(***************************************************************************)
EXTENDS Integers, Sequences, FiniteSets, TLC

VARIABLES
    html_file,              \* config_interface.html on disk (None: no such file)
    ino_file,               \* swim_pacer.ino on disk (None: no such file)
    html_content,           \* update_esp32_html.py main(): html_content of the last run
    ino_content,            \* update_esp32_html(): ino_content of the last run
    standalone_html,        \* compare_html(): standalone_html of the last run
    ino_html,               \* compare_html(): ino_html of the last run
    normalized_standalone,  \* compare_html(): normalized_standalone of the last run
    normalized_ino,         \* compare_html(): normalized_ino of the last run
    last,                   \* the last process run: which script, and its exit code
    prev,                   \* the process run before the last one
    updates,                \* number of runs of update_esp32_html.py so far
    text,                   \* a text handed to normalize_html
    passes                  \* how many times normalize_html was applied to text

vars == <<html_file, ino_file, html_content, ino_content, standalone_html, ino_html,
          normalized_standalone, normalized_ino, last, prev, updates, text, passes>>

(***************************************************************************)
(* Python values                                                           *)
(***************************************************************************)
None == [some |-> FALSE, val |-> <<>>]
Some(s) == [some |-> TRUE, val |-> s]

NoRun == [op |-> "none", code |-> 0]
Run(o, c) == [op |-> o, code |-> c]

Min(S) == CHOOSE m \in S : \A n \in S : m <= n
Max(S) == CHOOSE m \in S : \A n \in S : n <= m

\* str.find(sub, from): the least offset (from 0) at or after `from`, or -1
Find(sub, s, from) ==
    LET hits == {i \in from..(Len(s) - Len(sub)) : SubSeq(s, i + 1, i + Len(sub)) = sub}
    IN  IF hits = {} THEN -1 ELSE Min(hits)

\* s[i:j] for 0 <= i and 0 <= j
Slice(s, i, j) == SubSeq(s, i + 1, IF j < Len(s) THEN j ELSE Len(s))

\* \s of re, and the characters str.strip() removes
IsSpace(c) == c \in {" ", "\n"}

\* str.strip()
Strip(s) ==
    LET solid == {i \in 1..Len(s) : ~IsSpace(s[i])}
    IN  IF solid = {} THEN <<>> ELSE SubSeq(s, Min(solid), Max(solid))

(***************************************************************************)
(* The fixed texts of the two scripts                                      *)
(***************************************************************************)
NL == <<"\n">>
CommentOpen == <<"<", "!", "-", "-">>
CommentClose == <<"-", "-", ">">>
SyncMarker == "SYNC MARKER"

start_marker ==
    CommentOpen \o <<" ", "==========", " ", SyncMarker, ": START ESP32 HTML ==========", " ">>
                \o CommentClose
end_marker ==
    CommentOpen \o <<" ", "==========", " ", SyncMarker, ": END ESP32 HTML ==========", " ">>
                \o CommentClose

HandleRoot == <<"void handleRoot() {">>
LitOpen == <<"String html = R\"(">>
LitClose == <<")\";">>
closing_token == LitClose \o NL

(***************************************************************************)
(* sync_check.py                                                           *)
(***************************************************************************)

\* extract_html_from_standalone(): the text between the sync markers, or None
extract_html_from_standalone(file) ==
    IF ~file.some THEN None
    ELSE LET content == file.val
             start_idx == Find(start_marker, content, 0)
             end_idx == Find(end_marker, content, 0)
         IN  IF start_idx = -1 \/ end_idx = -1 THEN None
             ELSE LET after_line == Find(NL, content, start_idx) + 1
                  IN  Some(Strip(Slice(content, after_line, end_idx)))

\* extract_html_from_ino(): re.search of
\*   void handleRoot\(\) \{[\s\S]*?String html = R"\(\s*([\s\S]*?)\s*\)";
\* The match starts at the first handler opening that is followed by a literal
\* opening that is followed by a closing token; both lazy parts stop at the
\* first token that lets the rest match, and group 1 is stripped.
extract_html_from_ino(file) ==
    IF ~file.some THEN None
    ELSE LET content == file.val
             h == Find(HandleRoot, content, 0)
             o == IF h = -1 THEN -1 ELSE Find(LitOpen, content, h + Len(HandleRoot))
             c == IF o = -1 THEN -1 ELSE Find(LitClose, content, o + Len(LitOpen))
         IN  IF c = -1 THEN None
             ELSE Some(Strip(Slice(content, o + Len(LitOpen), c)))

HasSyncMarker(s) == \E k \in 1..Len(s) : s[k] = SyncMarker

\* re.sub(r'<!--(?!.*SYNC MARKER).*?-->', '', html_content, flags=re.DOTALL),
\* scanning s from offset i: a match starts at a comment opening after which the
\* text SYNC MARKER occurs nowhere in the rest of s, and ends with the first
\* comment closing
RECURSIVE RemoveCommentsFrom(_, _)
RemoveCommentsFrom(s, i) ==
    IF i >= Len(s) THEN <<>>
    ELSE LET close == Find(CommentClose, s, i + Len(CommentOpen))
         IN  IF /\ Slice(s, i, i + Len(CommentOpen)) = CommentOpen
                /\ ~HasSyncMarker(Slice(s, i + Len(CommentOpen), Len(s)))
                /\ close # -1
             THEN RemoveCommentsFrom(s, close + Len(CommentClose))
             ELSE <<s[i + 1]>> \o RemoveCommentsFrom(s, i + 1)

RemoveComments(s) == RemoveCommentsFrom(s, 0)

\* the offset of the first non-whitespace symbol at or after offset i (Len(s) if none)
RECURSIVE SkipSpace(_, _)
SkipSpace(s, i) ==
    IF i < Len(s) /\ IsSpace(s[i + 1]) THEN SkipSpace(s, i + 1) ELSE i

\* re.sub(r'\s+', ' ', html_content)
RECURSIVE CollapseSpaceFrom(_, _)
CollapseSpaceFrom(s, i) ==
    IF i >= Len(s) THEN <<>>
    ELSE IF IsSpace(s[i + 1]) THEN <<" ">> \o CollapseSpaceFrom(s, SkipSpace(s, i))
    ELSE <<s[i + 1]>> \o CollapseSpaceFrom(s, i + 1)

CollapseSpace(s) == CollapseSpaceFrom(s, 0)

\* re.sub(r'>\s+<', '><', html_content)
RECURSIVE TightenTagsFrom(_, _)
TightenTagsFrom(s, i) ==
    IF i >= Len(s) THEN <<>>
    ELSE LET j == SkipSpace(s, i + 1)
         IN  IF s[i + 1] = ">" /\ j > i + 1 /\ j < Len(s) /\ s[j + 1] = "<"
             THEN <<">", "<">> \o TightenTagsFrom(s, j + 1)
             ELSE <<s[i + 1]>> \o TightenTagsFrom(s, i + 1)

TightenTags(s) == TightenTagsFrom(s, 0)

\* a normalize_html that forgets to collapse whitespace runs
normalize_html_no_collapse(content) ==
    IF content = <<>> THEN <<>>
    ELSE Strip(TightenTags(RemoveComments(content)))

\* normalize_html()
normalize_html(content) ==
    IF content = <<>> THEN <<>>
    ELSE Strip(TightenTags(CollapseSpace(RemoveComments(content))))

\* a compare_html that gives up only when both extractors fail
compare_html_and(html, ino) ==
    LET standalone == extract_html_from_standalone(html)
        embedded == extract_html_from_ino(ino)
    IN  IF ~standalone.some /\ ~embedded.some
        THEN [standalone_html |-> standalone, ino_html |-> embedded,
              normalized_standalone |-> None, normalized_ino |-> None,
              result |-> FALSE]
        ELSE LET ns == normalize_html(standalone.val)
                 ni == normalize_html(embedded.val)
             IN  [standalone_html |-> standalone, ino_html |-> embedded,
                  normalized_standalone |-> Some(ns), normalized_ino |-> Some(ni),
                  result |-> (ns = ni)]

\* compare_html(): both extractors run; the locals it ends with, and its result
compare_html(html, ino) ==
    LET standalone == extract_html_from_standalone(html)
        embedded == extract_html_from_ino(ino)
    IN  IF ~standalone.some \/ ~embedded.some
        THEN [standalone_html |-> standalone, ino_html |-> embedded,
              normalized_standalone |-> None, normalized_ino |-> None,
              result |-> FALSE]
        ELSE LET ns == normalize_html(standalone.val)
                 ni == normalize_html(embedded.val)
             IN  [standalone_html |-> standalone, ino_html |-> embedded,
                  normalized_standalone |-> Some(ns), normalized_ino |-> Some(ni),
                  result |-> (ns = ni)]

(***************************************************************************)
(* update_esp32_html.py                                                    *)
(***************************************************************************)

\* extract_html_content(): the whole standalone file, stripped
extract_html_content(content) == Strip(content)

\* an update_esp32_html that cuts the old text at the end marker, not at the
\* closing token after it
update_esp32_html_cut_at_marker(content, html) ==
    LET start_match == Find(LitOpen, content, 0)
        start_pos == start_match + Len(LitOpen)
        end_marker_in_ino ==
            IF start_match = -1 THEN -1 ELSE Find(end_marker, content, start_pos)
        closing_pos ==
            IF end_marker_in_ino = -1 THEN -1
            ELSE Find(closing_token, content, end_marker_in_ino)
    IN  IF closing_pos = -1 THEN None
        ELSE Some(Slice(content, 0, start_pos) \o NL \o html \o NL
                  \o Slice(content, end_marker_in_ino, Len(content)))

\* update_esp32_html(): the text written back to the firmware file, or None when
\* one of the three ValueErrors is raised (nothing is written then)
update_esp32_html(content, html) ==
    LET start_match == Find(LitOpen, content, 0)
        start_pos == start_match + Len(LitOpen)
        end_marker_in_ino ==
            IF start_match = -1 THEN -1 ELSE Find(end_marker, content, start_pos)
        closing_pos ==
            IF end_marker_in_ino = -1 THEN -1
            ELSE Find(closing_token, content, end_marker_in_ino)
    IN  IF closing_pos = -1 THEN None
        ELSE Some(Slice(content, 0, start_pos) \o NL \o html \o NL
                  \o Slice(content, closing_pos, Len(content)))

\* main() of update_esp32_html.py: the locals it ends with, the firmware file it
\* leaves on disk and its return value.  Every exception (a file that cannot be
\* opened, a ValueError of update_esp32_html) is caught and turned into 1.
update_main(html, ino) ==
    IF ~html.some
    THEN [html_content |-> None, ino_content |-> None, ino_file |-> ino, code |-> 1]
    ELSE LET content == extract_html_content(html.val)
         IN  IF ~ino.some
             THEN [html_content |-> Some(content), ino_content |-> None,
                   ino_file |-> ino, code |-> 1]
             ELSE LET written == update_esp32_html(ino.val, content)
                  IN  [html_content |-> Some(content), ino_content |-> ino,
                       ino_file |-> IF written.some THEN written ELSE ino,
                       code |-> IF written.some THEN 0 ELSE 1]

\* main() of sync_check.py: the locals of compare_html and the exit code
check_main(html, ino) ==
    LET c == compare_html(html, ino)
    IN  [standalone_html |-> c.standalone_html, ino_html |-> c.ino_html,
         normalized_standalone |-> c.normalized_standalone,
         normalized_ino |-> c.normalized_ino,
         code |-> IF c.result THEN 0 ELSE 1]

(***************************************************************************)
(* Bounds and inputs                                                       *)
(***************************************************************************)
MaxUpdates == 2
MaxInoFrags == 4
MaxHtmlFrags == 2
MaxTripInoFrags == 4
MaxTripHtmlFrags == 2
MaxCheckInoFrags == 3
MaxCheckHtmlFrags == 3
MaxNormFrags == 5
MaxPasses == 2

\* every concatenation of at most k of the fragments
RECURSIVE Docs(_, _)
Docs(frags, k) ==
    IF k = 0 THEN {<<>>}
    ELSE LET shorter == Docs(frags, k - 1)
         IN  shorter \cup {d \o f : d \in shorter, f \in frags}

Files(docs) == {None} \cup {Some(d) : d \in docs}

Tag(name) == <<"<", name, ">">>
DivHi == Tag("div") \o <<"Hi">> \o Tag("/div")
DivSpacedHi == Tag("div") \o <<" ", " ", "Hi", " ", " ">> \o Tag("/div")

\* Scenarios 1 and 2 of the specification
ScenarioHtml == start_marker \o NL \o DivHi \o NL \o end_marker
Scenario1Ino == HandleRoot \o LitOpen \o DivHi \o closing_token
Scenario2Ino == HandleRoot \o LitOpen \o DivSpacedHi \o closing_token

\* the two scripts, run in any order on any pair of files
InoFrags == {HandleRoot, LitOpen, end_marker, closing_token, LitClose}
HtmlFrags == {start_marker, end_marker, LitClose, NL, <<"x">>}
InoFiles == Files(Docs(InoFrags, MaxInoFrags) \cup {Scenario1Ino, Scenario2Ino})
HtmlFiles == Files(Docs(HtmlFrags, MaxHtmlFrags) \cup {ScenarioHtml})

\* update, then the firmware extractor
TripInoFrags == {HandleRoot, LitOpen, end_marker, closing_token}
TripHtmlFrags == {NL, <<"x">>}
TripInoFiles == Files(Docs(TripInoFrags, MaxTripInoFrags))
TripHtmlFiles ==
    Files(Docs(TripHtmlFrags, MaxTripHtmlFrags)
          \cup {ScenarioHtml, <<"x">> \o LitClose \o <<"x">>})

\* the check on its own
CheckInoFrags == {HandleRoot, LitOpen, LitClose, <<"x">>}
CheckHtmlFrags == {start_marker, end_marker, NL, <<"x">>}
CheckInoFiles == Files(Docs(CheckInoFrags, MaxCheckInoFrags) \cup {Scenario1Ino, Scenario2Ino})
CheckHtmlFiles == Files(Docs(CheckHtmlFrags, MaxCheckHtmlFrags) \cup {ScenarioHtml})

\* texts for normalize_html
NormFrags == {CommentOpen, CommentClose, <<"<", "!">>, <<"-", "-">>, <<" ">>,
              <<"note">>, <<SyncMarker>>}
NormTexts == Docs(NormFrags, MaxNormFrags)

(***************************************************************************)
(* The state machine: the two files, and runs of the two scripts           *)
(***************************************************************************)
Fresh ==
    /\ html_content = None
    /\ ino_content = None
    /\ standalone_html = None
    /\ ino_html = None
    /\ normalized_standalone = None
    /\ normalized_ino = None
    /\ last = NoRun
    /\ prev = NoRun
    /\ updates = 0

Init ==
    /\ html_file \in HtmlFiles
    /\ ino_file \in InoFiles
    /\ Fresh
    /\ text = <<>>
    /\ passes = 0

\* python update_esp32_html.py
RunUpdate ==
    /\ updates < MaxUpdates
    /\ LET r == update_main(html_file, ino_file)
       IN  /\ html_content' = r.html_content
           /\ ino_content' = r.ino_content
           /\ ino_file' = r.ino_file
           /\ last' = Run("update", r.code)
    /\ prev' = last
    /\ updates' = updates + 1
    /\ UNCHANGED <<html_file, standalone_html, ino_html, normalized_standalone,
                   normalized_ino, text, passes>>

\* python sync_check.py
RunCheck ==
    /\ LET r == check_main(html_file, ino_file)
       IN  /\ standalone_html' = r.standalone_html
           /\ ino_html' = r.ino_html
           /\ normalized_standalone' = r.normalized_standalone
           /\ normalized_ino' = r.normalized_ino
           /\ last' = Run("check", r.code)
    /\ prev' = last
    /\ UNCHANGED <<html_file, ino_file, html_content, ino_content, updates, text, passes>>

Next == RunUpdate \/ RunCheck

Spec == Init /\ [][Next]_vars

InitRoundTrip ==
    /\ html_file \in TripHtmlFiles
    /\ ino_file \in TripInoFiles
    /\ Fresh
    /\ text = <<>>
    /\ passes = 0

SpecRoundTrip == InitRoundTrip /\ [][Next]_vars

InitCheck ==
    /\ html_file \in CheckHtmlFiles
    /\ ino_file \in CheckInoFiles
    /\ Fresh
    /\ text = <<>>
    /\ passes = 0

NextCheck == RunCheck

SpecCheck == InitCheck /\ [][NextCheck]_vars

(***************************************************************************)
(* normalize_html on its own: a text, normalised again and again           *)
(***************************************************************************)
InitNorm ==
    /\ html_file = None
    /\ ino_file = None
    /\ Fresh
    /\ text \in NormTexts
    /\ passes = 0

\* text = normalize_html(text)
NormalizePass ==
    /\ passes < MaxPasses
    /\ text' = normalize_html(text)
    /\ passes' = passes + 1
    /\ UNCHANGED <<html_file, ino_file, html_content, ino_content, standalone_html,
                   ino_html, normalized_standalone, normalized_ino, last, prev, updates>>

NextNorm == NormalizePass

SpecNorm == InitNorm /\ [][NextNorm]_vars

(***************************************************************************)
(* Properties                                                              *)
(***************************************************************************)

\* this step is a run of update_esp32_html.py
UpdateStep == updates' = updates + 1

\* this step is a run of sync_check.py
CheckStep == last'.op = "check" /\ prev' = last /\ updates' = updates

\* the last two runs: a successful update, then the check
UpdatedThenChecked == prev = Run("update", 0) /\ last.op = "check"

\* C1: a second run of update right after a first, the standalone file being the
\* same, leaves the firmware file exactly as the first run left it
C1_UpdateTwiceSameFile ==
    [][(last.op = "update" /\ UpdateStep) => ino_file' = ino_file]_vars

HasCloseToken(s) == Find(LitClose, s, 0) # -1

\* the first literal opening of the firmware text comes after a handler opening
HandlerBeforeLiteral(s) ==
    /\ Find(HandleRoot, s, 0) # -1
    /\ Find(HandleRoot, s, 0) < Find(LitOpen, s, 0)

\* C2 as claimed: after a successful update with a standalone text that holds no
\* closing token, the firmware extractor returns the stripped standalone text,
\* whatever the firmware file was
C2_RoundTripAnyFirmware ==
    (UpdatedThenChecked /\ ~HasCloseToken(html_file.val))
        => ino_html = Some(Strip(html_file.val))

\* C2 as amended: the same, for a firmware file whose first literal opening comes
\* after a handler opening
C2_RoundTrip ==
    (/\ UpdatedThenChecked
     /\ ~HasCloseToken(html_file.val)
     /\ HandlerBeforeLiteral(ino_content.val))
        => ino_html = Some(Strip(html_file.val))

C2_Witness ==
    /\ UpdatedThenChecked
    /\ ~HasCloseToken(html_file.val)
    /\ HandlerBeforeLiteral(ino_content.val)
    /\ Strip(html_file.val) # <<>>
    /\ Strip(html_file.val) # html_file.val
    /\ ino_file # ino_content

\* the firmware text has a first literal, opened and closed, and the END marker
\* does not occur between its opening and its closing token
LiteralBodyLacksEndMarker(s) ==
    LET o == Find(LitOpen, s, 0)
        c == IF o = -1 THEN -1 ELSE Find(LitClose, s, o + Len(LitOpen))
    IN  /\ c # -1
        /\ Find(end_marker, Slice(s, o + Len(LitOpen), c), 0) = -1

\* C3: run on a firmware file whose literal body holds no END marker, update
\* returns 1 and leaves the firmware file as it was
C3_NoWriteWithoutMarkerInBody ==
    [][(/\ UpdateStep
        /\ html_file.some
        /\ ino_file.some
        /\ LiteralBodyLacksEndMarker(ino_file.val))
            => (last'.code = 1 /\ ino_file' = ino_file)]_vars

MarkersPresent(file) ==
    /\ file.some
    /\ Find(start_marker, file.val, 0) # -1
    /\ Find(end_marker, file.val, 0) # -1

\* C4: the check exits 0 exactly when both extractors succeed and the normalised
\* texts are equal, and 1 otherwise (a missing file, a missing sentinel, no
\* firmware pattern, a mismatch); it normalises nothing when an extractor fails
C4_CheckVerdict ==
    last.op = "check" =>
        LET both == standalone_html.some /\ ino_html.some
        IN  /\ last.code \in {0, 1}
            /\ standalone_html = extract_html_from_standalone(html_file)
            /\ ino_html = extract_html_from_ino(ino_file)
            /\ standalone_html.some <=> MarkersPresent(html_file)
            /\ ~ino_file.some => ~ino_html.some
            /\ last.code = 0 <=>
                    (both /\ normalize_html(standalone_html.val) = normalize_html(ino_html.val))
            /\ ~both => (normalized_standalone = None /\ normalized_ino = None)
            /\ both => /\ normalized_standalone = Some(normalize_html(standalone_html.val))
                       /\ normalized_ino = Some(normalize_html(ino_html.val))

C4_Witness ==
    /\ last = Run("check", 0)
    /\ normalized_standalone.some
    /\ normalized_standalone.val # <<>>

\* C5: the check run right after a successful update exits 0
C5_UpdateThenCheckInSync == UpdatedThenChecked => last.code = 0

Scenario2Checked ==
    /\ last.op = "check"
    /\ html_file = Some(ScenarioHtml)
    /\ ino_file = Some(Scenario2Ino)

\* C6 as claimed: in Scenario 2 both texts normalise to <div>Hi</div> and the
\* check exits 0
C6_Scenario2InSync ==
    Scenario2Checked =>
        /\ normalized_standalone = Some(DivHi)
        /\ normalized_ino = Some(DivHi)
        /\ last.code = 0

\* C6 as amended: in Scenario 2 the standalone text normalises to <div>Hi</div>
\* and the firmware text to <div> Hi </div> (one space kept on each side of Hi),
\* and the check exits 1
C6_Scenario2NotInSync ==
    Scenario2Checked =>
        /\ normalized_standalone = Some(DivHi)
        /\ normalized_ino = Some(Tag("div") \o <<" ", "Hi", " ">> \o Tag("/div"))
        /\ last.code = 1

C6_Witness == Scenario2Checked /\ ino_html = Some(DivSpacedHi)

\* the offsets at which a comment opens that has a closing
Comments(s) ==
    {i \in 0..Len(s) :
        /\ Slice(s, i, i + Len(CommentOpen)) = CommentOpen
        /\ Find(CommentClose, s, i + Len(CommentOpen)) # -1}

\* the text between the opening at offset i and the first closing after it
CommentBody(s, i) ==
    Slice(s, i + Len(CommentOpen), Find(CommentClose, s, i + Len(CommentOpen)))

SentinelComments(s) == {i \in Comments(s) : HasSyncMarker(CommentBody(s, i))}

\* C7: normalize_html keeps every comment that holds SYNC MARKER, and its output
\* holds no comment without SYNC MARKER
C7_OnlySentinelCommentsRemain ==
    [][passes' = passes + 1 =>
        /\ Comments(text') = SentinelComments(text')
        /\ Cardinality(SentinelComments(text')) = Cardinality(SentinelComments(text))]_vars

\* C8: normalising a normalised text changes nothing, and the empty text
\* normalises to the empty text
C8_NormalizeIdempotent ==
    [][passes' = passes + 1 =>
        /\ passes >= 1 => text' = text
        /\ text = <<>> => text' = <<>>]_vars

\* C9: a successful update writes the old text up to the end of the first literal
\* opening, a newline, the standalone content, a newline, and the old text from
\* the closing token of that same literal on
C9_SpliceFrame ==
    [][(UpdateStep /\ last'.code = 0) =>
        LET old == ino_file.val
            p == Find(LitOpen, old, 0) + Len(LitOpen)
            q == Find(LitClose, old, p)
        IN  ino_file'.val = Slice(old, 0, p) \o NL \o html_content'.val \o NL
                                \o Slice(old, q, Len(old))]_vars

\* C10: the standalone extractor fails exactly when a sentinel is missing, and
\* otherwise returns the stripped text from just after the newline that follows
\* the START sentinel (nothing when no newline follows it) up to the END sentinel
C10_StandaloneExtract ==
    (last.op = "check" /\ html_file.some) =>
        LET content == html_file.val
            s == Find(start_marker, content, 0)
            e == Find(end_marker, content, 0)
            newline == Find(NL, content, s)
            begin == IF newline = -1 THEN Len(content) ELSE newline + 1
        IN  /\ standalone_html.some <=> (s # -1 /\ e # -1)
            /\ (s # -1 /\ e # -1) => standalone_html.val = Strip(Slice(content, begin, e))

====
